---- MODULE Spec2Model ----
(***************************************************************************)
(* PortID JavaScript SDK: the sign-up / login / backup / restore protocol  *)
(* of class PortID (portid-js-sdk) and its crypto helpers (encryption.js), *)
(* run by several devices against one sync server (directory + storage).   *)
(* Every async method is cut at its awaits: one action per continuation;   *)
(* a continuation that sends a request includes the server's handling of   *)
(* it, and the answer then travels back while other continuations run.     *)
(***************************************************************************)
EXTENDS Naturals, Integers, Sequences, FiniteSets, TLC

\* ---------------------------------------------------------------- bounds
MaxCalls == 3    \* calls that went to the network in one behaviour

Devices == {"d1", "d2"}   \* SDK instances, each with its own IndexedDB
Slots   == {1, 2}         \* network calls in flight at once, over all devices

\* ---------------------------------------------------------------- inputs
AppId     == "app"
Users     == {"alice", "bob"}
SignUpPasswords == {"pw1"}            \* the password a user signs up with
LoginPasswords  == {"pw1", "wrong"}   \* the password signed up with, or another
NoUser    == "null"          \* this.currentUser = null, and JSON's null username
NoHash    == "null"          \* a response without ipfsHash
NoKey     == ""              \* no key held
WrongKey  == "rk0"           \* a recovery key that generateRecoveryKey never produced
PendingFirstBackup == "pending_first_backup"

\* JavaScript values handed to backupData / returned by restoreData, and their
\* JSON texts.
JSNull      == "<null>"
JSObjA      == "<{a:1}>"
InitialData == "<{sdk_version:'1.0.0'}>"
Payloads    == {JSNull, JSObjA}
\* Further JSON-serializable values: false, 0, "", {} and [].
JSFalse       == "<false>"
JSZero        == "<0>"
JSEmptyString == "<''>"
JSEmptyObject == "<{}>"
JSEmptyArray  == "<[]>"
JSONValues    == Payloads \cup {InitialData, JSFalse, JSZero, JSEmptyString,
                                JSEmptyObject, JSEmptyArray}
NoData      == "<undefined>"

\* ---------------------------------------------------------------- encryption.js
generateRecoveryKey(n) == "rk" \o ToString(n)

hashPassword(password) == "sha256(" \o password \o ")"

JSONstringify(data) ==
    CASE data = JSNull      -> "null"
      [] data = JSObjA      -> "{\"a\":1}"
      [] data = InitialData -> "{\"sdk_version\":\"1.0.0\"}"
      [] data = JSFalse       -> "false"
      [] data = JSZero        -> "0"
      [] data = JSEmptyString -> "\"\""
      [] data = JSEmptyObject -> "{}"
      [] data = JSEmptyArray  -> "[]"
      [] OTHER              -> "undefined"

JSONparse(text) ==
    CASE text = "null"                        -> JSNull
      [] text = "{\"a\":1}"                   -> JSObjA
      [] text = "{\"sdk_version\":\"1.0.0\"}" -> InitialData
      [] text = "false"                       -> JSFalse
      [] text = "0"                           -> JSZero
      [] text = "\"\""                        -> JSEmptyString
      [] text = "{}"                          -> JSEmptyObject
      [] text = "[]"                          -> JSEmptyArray
      [] OTHER                                -> "SyntaxError"

\* CryptoJS.AES with a passphrase: a fresh random salt per call; the plaintext
\* comes back only under the same passphrase.
AESencrypt(text, secretKey, salt) == [pt |-> text, key |-> secretKey, salt |-> salt]

\* Under another key the bytes are garbage: toString(Utf8) throws or is empty.
AESdecryptUtf8(ct, secretKey) == IF ct.key = secretKey THEN ct.pt ELSE ""

encryptData(data, secretKey, salt) == AESencrypt(JSONstringify(data), secretKey, salt)

decryptData(encryptedData, secretKey) ==
    LET decryptedString == AESdecryptUtf8(encryptedData, secretKey)
    IN  IF decryptedString = "" THEN JSNull
        ELSE IF JSONparse(decryptedString) = "SyntaxError" THEN JSNull
        ELSE JSONparse(decryptedString)

NoBlob == [pt |-> "", key |-> NoKey, salt |-> 0]

\* ---------------------------------------------------------------- state
VARIABLES
    db,           \* db[d]: the users table of device d, username -> record
    currentUser,  \* currentUser[d]: this.currentUser of device d
    calls,        \* calls[c]: the network call running in slot c, and its device
    settled,      \* the outcome of the network call that settled last
    directory,    \* server: username -> hash, for AppId
    blobs,        \* server: the ciphertexts stored, each addressed by CID
    count         \* so far: keys generated, encryptions made, network calls started

vars == <<db, currentUser, calls, settled, directory, blobs, count>>

NoRecord == [username |-> NoUser, hashedPassword |-> NoHash,
             recoveryKey |-> NoKey, backupHash |-> NoHash]

NoReq  == [endpoint |-> "none", body |-> <<>>]
NoResp == [status |-> "none", ipfsHash |-> NoHash, blob |-> NoBlob]

Idle == [op |-> "none", pc |-> "idle", dev |-> "none", username |-> NoUser,
         recoveryKey |-> NoKey, hashedPassword |-> NoHash, data |-> NoData,
         ipfsHash |-> NoHash, req |-> NoReq, resp |-> NoResp]

NothingSettled == [op |-> "none", ok |-> FALSE, val |-> "", err |-> ""]

Init ==
    /\ db = [d \in Devices |-> [u \in Users |-> NoRecord]]
    /\ currentUser = [d \in Devices |-> NoUser]
    /\ calls = [c \in Slots |-> Idle]
    /\ settled = NothingSettled
    /\ directory = [u \in Users |-> NoHash]
    /\ blobs = {}
    /\ count = [keys |-> 0, enc |-> 0, calls |-> 0]

\* ---------------------------------------------------------------- sync server
\* The directory and storage services behind the four endpoints, and what the
\* network does to one request: it is served and answered ("ok"), never served
\* ("dropped"), served but its answer lost ("unanswered"), or, for a backup,
\* answered 200 without a content address ("nohash").
Network == {"ok", "dropped", "unanswered", "nohash"}

CID(ct) == "Qm" \o ToString(ct.salt)

Ok == [NoResp EXCEPT !.status = "ok"]
Error == [NoResp EXCEPT !.status = "error"]

Served(net) == net \in {"ok", "unanswered"}

\* setPointer: upsert of (app_id, username) -> hash.
ServerDirectory(req, net) ==
    IF Served(net) /\ req.endpoint = "/api/set-hash" /\ req.body.username \in Users
    THEN [directory EXCEPT ![req.body.username] = req.body.hash]
    ELSE directory

\* store: the ciphertext is pinned.
ServerBlobs(req, net) ==
    IF Served(net) /\ req.endpoint = "/api/backup"
    THEN blobs \cup {req.body.encryptedData}
    ELSE blobs

\* The answer: ok for setPointer, the content address for store, the registered
\* hash (or none) for getPointer, the ciphertext at the address for fetch.
ServerResponse(req, net) ==
    IF net = "nohash" THEN Ok
    ELSE IF net # "ok" THEN Error
    ELSE CASE req.endpoint = "/api/set-hash" ->
                IF req.body.username \in Users THEN Ok ELSE Error
           [] req.endpoint = "/api/backup" ->
                [Ok EXCEPT !.ipfsHash = CID(req.body.encryptedData)]
           [] req.endpoint = "/api/get-hash" ->
                [Ok EXCEPT !.ipfsHash = directory[req.body.username]]
           [] req.endpoint = "/api/restore" ->
                LET found == {ct \in blobs : CID(ct) = req.body.hash}
                IN  IF found = {} THEN Error
                    ELSE [Ok EXCEPT !.blob = CHOOSE ct \in found : TRUE]

\* ---------------------------------------------------------------- helpers
\* The slot a new call takes: the first one holding no running call.
Free(c) == calls[c].pc = "idle"
FreeSlot == CHOOSE c \in Slots : Free(c) /\ \A c2 \in Slots : c2 < c => ~Free(c2)
CanStart == count.calls < MaxCalls /\ \E c \in Slots : Free(c)

Awaiting(c, op, pc) == calls[c].op = op /\ calls[c].pc = pc

\* The outcome of a call: the promise rejects with an error, or resolves to a
\* value; or the call goes on to the network.
Throw(op, err) == [op |-> op, ok |-> FALSE, val |-> "", err |-> err]
Return(op, val) == [op |-> op, ok |-> TRUE, val |-> val, err |-> ""]
GoesOn(op) == [op |-> op, ok |-> FALSE, val |-> "", err |-> "pending"]

\* The call in slot c settles with this outcome; its slot is free again.
Settle(c, outcome) ==
    /\ calls' = [calls EXCEPT ![c] = Idle]
    /\ settled' = outcome
    /\ UNCHANGED <<directory, blobs>>

\* _request: the fetch is issued and served; the call waits at pc for the answer.
Request(c, self, pc, req, net) ==
    /\ net = "nohash" => req.endpoint = "/api/backup"
    /\ calls' = [calls EXCEPT ![c] =
                    [self EXCEPT !.pc = pc, !.req = req, !.resp = ServerResponse(req, net)]]
    /\ directory' = ServerDirectory(req, net)
    /\ blobs' = ServerBlobs(req, net)
    /\ UNCHANGED settled

\* _request throws PortIDError("Network or API error: ...") on any failure.
RequestThrew(resp) == resp.status = "error"

\* db.users.get(key) on device d: the record, or none.
UsersGet(d, key) == IF key \in Users THEN db[d][key] ELSE NoRecord

\* ---------------------------------------------------------------- requests
SignUpPlaceholderRequest(self) ==
    [endpoint |-> "/api/set-hash",
     body |-> [app_id |-> AppId, username |-> self.username, hash |-> PendingFirstBackup]]

\* Mutant: the backup request carries the recovery key along with the ciphertext.
SignUpBackupRequest_WithKey(self, encryptedData) ==
    [endpoint |-> "/api/backup",
     body |-> [encryptedData |-> encryptedData, username |-> self.username,
               recoveryKey |-> self.recoveryKey]]

SignUpBackupRequest(self, encryptedData) ==
    [endpoint |-> "/api/backup",
     body |-> [encryptedData |-> encryptedData, username |-> self.username]]

\* Mutant: step 4 registers the placeholder again instead of the real hash.
SignUpSetHashRequest_Placeholder(self, ipfsHash) ==
    [endpoint |-> "/api/set-hash",
     body |-> [app_id |-> AppId, username |-> self.username, hash |-> PendingFirstBackup]]

SignUpSetHashRequest(self, ipfsHash) ==
    [endpoint |-> "/api/set-hash",
     body |-> [app_id |-> AppId, username |-> self.username, hash |-> ipfsHash]]

BackupRequest(thisCurrentUser, encryptedData) ==
    [endpoint |-> "/api/backup",
     body |-> [encryptedData |-> encryptedData, username |-> thisCurrentUser]]

\* Mutant: registers an address at which nothing was stored.
BackupSetHashRequest_Unstored(thisCurrentUser, ipfsHash) ==
    [endpoint |-> "/api/set-hash",
     body |-> [app_id |-> AppId, username |-> thisCurrentUser, hash |-> "Qm0"]]

BackupSetHashRequest(thisCurrentUser, ipfsHash) ==
    [endpoint |-> "/api/set-hash",
     body |-> [app_id |-> AppId, username |-> thisCurrentUser, hash |-> ipfsHash]]

GetHashRequest(username) ==
    [endpoint |-> "/api/get-hash", body |-> [app_id |-> AppId, username |-> username]]

RestoreRequest(ipfsHash) ==
    [endpoint |-> "/api/restore", body |-> [hash |-> ipfsHash]]

\* ---------------------------------------------------------------- signUp
ArgsMissing(username, password) == username = "" \/ password = ""

\* Mutant: the duplicate check never fires.
UserExists_Never(existingUser) == FALSE

UserExists(existingUser) == existingUser # NoRecord

\* Mutant: the hash check never fires.
MissingHash_Never(ipfsHash) == FALSE

MissingHash(ipfsHash) == ipfsHash = NoHash

\* The checks before the first request: the arguments, then db.users.get and
\* the duplicate check. A call they reject ends there.
SignUpChecks(d, username, password) ==
    LET existingUser == UsersGet(d, username)
    IN  IF ArgsMissing(username, password) THEN Throw("signUp", "ArgsRequired")
        ELSE IF UserExists(existingUser) THEN Throw("signUp", "DuplicateUser")
        ELSE GoesOn("signUp")

\* The call up to its first request: the checks, key generation, placeholder
\* request. (The get reads the table when it resolves, and the code after it
\* runs in the same task.)
SignUp(d, username, password, net) ==
    /\ LET self == [Idle EXCEPT !.op = "signUp", !.dev = d, !.username = username,
                                !.recoveryKey = generateRecoveryKey(count.keys + 1),
                                !.hashedPassword = hashPassword(password)]
       IN  IF SignUpChecks(d, username, password) # GoesOn("signUp")
           THEN UNCHANGED <<calls, settled, directory, blobs, count>>
           ELSE /\ CanStart
                /\ count' = [count EXCEPT !.calls = @ + 1, !.keys = @ + 1]
                /\ Request(FreeSlot, self, "placeholder", SignUpPlaceholderRequest(self), net)
    /\ UNCHANGED <<db, currentUser>>

\* Mutant: the credentials are saved locally before the initial backup.
SignUpPlaceholderDone_SavesFirst(c, net) ==
    /\ Awaiting(c, "signUp", "placeholder")
    /\ LET self == calls[c]
       IN  IF RequestThrew(self.resp)
           THEN /\ Settle(c, Throw("signUp", "NetworkOrApiError"))
                /\ UNCHANGED <<count, db>>
           ELSE /\ count' = [count EXCEPT !.enc = @ + 1]
                /\ db' = [db EXCEPT ![self.dev][self.username] =
                             [username |-> self.username,
                              hashedPassword |-> self.hashedPassword,
                              recoveryKey |-> self.recoveryKey,
                              backupHash |-> PendingFirstBackup]]
                /\ LET encryptedData == encryptData(InitialData, self.recoveryKey, count.enc + 1)
                   IN  Request(c, self, "backup", SignUpBackupRequest(self, encryptedData), net)
    /\ UNCHANGED currentUser

\* Placeholder registered: encrypt the initial payload and store it.
SignUpPlaceholderDone(c, net) ==
    /\ Awaiting(c, "signUp", "placeholder")
    /\ LET self == calls[c]
       IN  IF RequestThrew(self.resp)
           THEN /\ Settle(c, Throw("signUp", "NetworkOrApiError"))
                /\ UNCHANGED count
           ELSE /\ count' = [count EXCEPT !.enc = @ + 1]
                /\ LET encryptedData == encryptData(InitialData, self.recoveryKey, count.enc + 1)
                   IN  Request(c, self, "backup", SignUpBackupRequest(self, encryptedData), net)
    /\ UNCHANGED <<db, currentUser>>

\* Initial backup stored: register the real hash.
SignUpBackupDone(c, net) ==
    /\ Awaiting(c, "signUp", "backup")
    /\ LET self == calls[c]
           ipfsHash == self.resp.ipfsHash
       IN  IF RequestThrew(self.resp)
           THEN Settle(c, Throw("signUp", "NetworkOrApiError"))
           ELSE IF MissingHash(ipfsHash)
           THEN Settle(c, Throw("signUp", "BackupFailed"))
           ELSE Request(c, [self EXCEPT !.ipfsHash = ipfsHash], "sethash",
                        SignUpSetHashRequest(self, ipfsHash), net)
    /\ UNCHANGED <<db, currentUser, count>>

\* Real hash registered: db.users.add(credentials), return { recoveryKey }.
\* add rejects (ConstraintError) when the key is already in the table.
SignUpSetHashDone(c) ==
    /\ Awaiting(c, "signUp", "sethash")
    /\ LET self == calls[c]
           d == self.dev
           credentials == [username |-> self.username,
                           hashedPassword |-> self.hashedPassword,
                           recoveryKey |-> self.recoveryKey,
                           backupHash |-> self.ipfsHash]
       IN  IF RequestThrew(self.resp)
           THEN /\ Settle(c, Throw("signUp", "NetworkOrApiError"))
                /\ UNCHANGED db
           ELSE IF UsersGet(d, self.username) # NoRecord
           THEN /\ Settle(c, Throw("signUp", "LocalStoreError"))
                /\ UNCHANGED db
           ELSE /\ db' = [db EXCEPT ![d][self.username] = credentials]
                /\ Settle(c, Return("signUp", self.recoveryKey))
    /\ UNCHANGED <<currentUser, count>>

\* ---------------------------------------------------------------- login / logout
\* Mutant: a record without a verifier accepts any password.
PasswordMatches_OrNoVerifier(user, hashedPassword) ==
    user # NoRecord /\ (user.hashedPassword = NoHash \/ user.hashedPassword = hashedPassword)

PasswordMatches(user, hashedPassword) ==
    user # NoRecord /\ user.hashedPassword = hashedPassword

\* What login resolves to.
LoginResult(d, username, password) ==
    LET user == UsersGet(d, username)
        hashedPassword == hashPassword(password)
    IN  IF PasswordMatches(user, hashedPassword)
        THEN Return("login", "true")
        ELSE Return("login", "false")

\* Mutant: the session is set whatever the comparison says.
Login_AlwaysSets(d, username, password) ==
    /\ currentUser' = [currentUser EXCEPT ![d] = username]
    /\ UNCHANGED <<db, calls, settled, directory, blobs, count>>

\* db.users.get, the comparison and the session update: no network, so the call
\* is one step, taken when the get resolves.
Login(d, username, password) ==
    /\ currentUser' = IF LoginResult(d, username, password) = Return("login", "true")
                      THEN [currentUser EXCEPT ![d] = username]
                      ELSE currentUser
    /\ UNCHANGED <<db, calls, settled, directory, blobs, count>>

Logout(d) ==
    /\ currentUser' = [currentUser EXCEPT ![d] = NoUser]
    /\ UNCHANGED <<db, calls, settled, directory, blobs, count>>

\* ---------------------------------------------------------------- backupData
\* Mutant: the session check never fires.
NotLoggedIn_Never(thisCurrentUser) == FALSE

NotLoggedIn(thisCurrentUser) == thisCurrentUser = NoUser

\* The session check. A call it rejects ends there.
BackupDataChecks(d) ==
    IF NotLoggedIn(currentUser[d]) THEN Throw("backupData", "NotLoggedIn")
    ELSE GoesOn("backupData")

\* The synchronous part: the session check, and db.users.get(this.currentUser)
\* issued with the session's username as it is now.
BackupData(d, data) ==
    /\ LET self == [Idle EXCEPT !.op = "backupData", !.dev = d, !.pc = "get",
                                !.data = data, !.username = currentUser[d]]
       IN  IF BackupDataChecks(d) # GoesOn("backupData")
           THEN UNCHANGED <<calls, count>>
           ELSE /\ CanStart
                /\ count' = [count EXCEPT !.calls = @ + 1]
                /\ calls' = [calls EXCEPT ![FreeSlot] = self]
    /\ UNCHANGED <<db, currentUser, settled, directory, blobs>>

\* The get resolved: encrypt and store. The request's username is
\* this.currentUser as it is now.
BackupGot(c, net) ==
    /\ Awaiting(c, "backupData", "get")
    /\ LET self == calls[c]
           d == self.dev
           user == UsersGet(d, self.username)
       IN  IF user = NoRecord
           THEN /\ Settle(c, Throw("backupData", "NoLocalCredentials"))
                /\ UNCHANGED count
           ELSE /\ count' = [count EXCEPT !.enc = @ + 1]
                /\ LET encryptedData == encryptData(self.data, user.recoveryKey, count.enc + 1)
                   IN  Request(c, self, "backup",
                               BackupRequest(currentUser[d], encryptedData), net)
    /\ UNCHANGED <<db, currentUser>>

\* Ciphertext stored: register its hash under this.currentUser.
BackupStored(c, net) ==
    /\ Awaiting(c, "backupData", "backup")
    /\ LET self == calls[c]
           d == self.dev
           ipfsHash == self.resp.ipfsHash
       IN  IF RequestThrew(self.resp)
           THEN Settle(c, Throw("backupData", "NetworkOrApiError"))
           ELSE IF MissingHash(ipfsHash)
           THEN Settle(c, Throw("backupData", "BackupFailed"))
           ELSE Request(c, [self EXCEPT !.ipfsHash = ipfsHash], "sethash",
                        BackupSetHashRequest(currentUser[d], ipfsHash), net)
    /\ UNCHANGED <<db, currentUser, count>>

\* Hash registered: db.users.update(this.currentUser, { backupHash }), return
\* the hash. update rejects a null key and changes nothing for an absent one.
BackupRegistered(c) ==
    /\ Awaiting(c, "backupData", "sethash")
    /\ LET self == calls[c]
           d == self.dev
           key == currentUser[d]
       IN  IF RequestThrew(self.resp)
           THEN /\ Settle(c, Throw("backupData", "NetworkOrApiError"))
                /\ UNCHANGED db
           ELSE IF key = NoUser
           THEN /\ Settle(c, Throw("backupData", "LocalStoreError"))
                /\ UNCHANGED db
           ELSE /\ db' = [db EXCEPT ![d][key] =
                        IF @ = NoRecord THEN @ ELSE [@ EXCEPT !.backupHash = self.ipfsHash]]
                /\ Settle(c, Return("backupData", self.ipfsHash))
    /\ UNCHANGED <<currentUser, count>>

\* ---------------------------------------------------------------- restoreData
\* The recovery keys a caller can hold: those generated so far, or a wrong one.
KnownKeys == {generateRecoveryKey(n) : n \in 1..count.keys} \cup {WrongKey}

DecryptFailed(decryptedData) == decryptedData = JSNull

RestoreData(d, username, recoveryKey, net) ==
    /\ CanStart
    /\ count' = [count EXCEPT !.calls = @ + 1]
    /\ LET self == [Idle EXCEPT !.op = "restoreData", !.dev = d, !.username = username,
                                !.recoveryKey = recoveryKey]
       IN  Request(FreeSlot, self, "gethash", GetHashRequest(username), net)
    /\ UNCHANGED <<db, currentUser>>

\* What the answer to get-hash makes of the call.
RestoreHashResult(self) ==
    LET ipfsHash == self.resp.ipfsHash
    IN  IF RequestThrew(self.resp) THEN Throw("restoreData", "NetworkOrApiError")
        ELSE IF MissingHash(ipfsHash) THEN Throw("restoreData", "NoBackupFound")
        ELSE GoesOn("restoreData")

RestoreGotHash(c, net) ==
    /\ Awaiting(c, "restoreData", "gethash")
    /\ LET self == calls[c]
           ipfsHash == self.resp.ipfsHash
       IN  IF RestoreHashResult(self) # GoesOn("restoreData")
           THEN Settle(c, RestoreHashResult(self))
           ELSE Request(c, [self EXCEPT !.ipfsHash = ipfsHash], "restore",
                        RestoreRequest(ipfsHash), net)
    /\ UNCHANGED <<db, currentUser, count>>

\* What restoreData settles with once the blob request is answered.
RestoreResult(self) ==
    LET encryptedDataBlob == self.resp.blob
        decryptedData == decryptData(encryptedDataBlob, self.recoveryKey)
    IN  IF RequestThrew(self.resp) THEN Throw("restoreData", "NetworkOrApiError")
        ELSE IF encryptedDataBlob = NoBlob THEN Throw("restoreData", "UnexpectedFormat")
        ELSE IF DecryptFailed(decryptedData) THEN Throw("restoreData", "InvalidRecoveryKey")
        ELSE Return("restoreData", decryptedData)

\* Mutant: the profile is put as soon as the blob is downloaded, before the
\* decryption is checked.
RestoreGotBlob_PutsFirst(c) ==
    /\ Awaiting(c, "restoreData", "restore")
    /\ LET self == calls[c]
           d == self.dev
       IN  /\ Settle(c, RestoreResult(self))
           /\ db' = IF ~RequestThrew(self.resp)
                    THEN [db EXCEPT ![d][self.username] =
                            [username |-> self.username, recoveryKey |-> self.recoveryKey,
                             backupHash |-> self.ipfsHash, hashedPassword |-> NoHash]]
                    ELSE db
    /\ UNCHANGED <<currentUser, count>>

\* Blob downloaded: decrypt, db.users.put the profile, return the data.
RestoreGotBlob(c) ==
    /\ Awaiting(c, "restoreData", "restore")
    /\ LET self == calls[c]
           d == self.dev
       IN  /\ Settle(c, RestoreResult(self))
           /\ db' = IF RestoreResult(self).ok
                    THEN [db EXCEPT ![d][self.username] =
                            [username |-> self.username, recoveryKey |-> self.recoveryKey,
                             backupHash |-> self.ipfsHash, hashedPassword |-> NoHash]]
                    ELSE db
    /\ UNCHANGED <<currentUser, count>>

\* ---------------------------------------------------------------- specification
\* One step of some device, its requests treated by the network as nets allows.
Step(nets) ==
    \/ \E d \in Devices, u \in Users, pw \in SignUpPasswords, net \in nets :
           SignUp(d, u, pw, net)
    \/ \E c \in Slots, net \in nets : SignUpPlaceholderDone(c, net)
    \/ \E c \in Slots, net \in nets : SignUpBackupDone(c, net)
    \/ \E c \in Slots : SignUpSetHashDone(c)
    \/ \E d \in Devices, u \in Users, pw \in LoginPasswords : Login(d, u, pw)
    \/ \E d \in Devices : Logout(d)
    \/ \E d \in Devices, data \in Payloads : BackupData(d, data)
    \/ \E c \in Slots, net \in nets : BackupGot(c, net)
    \/ \E c \in Slots, net \in nets : BackupStored(c, net)
    \/ \E c \in Slots : BackupRegistered(c)
    \/ \E d \in Devices, u \in Users, k \in KnownKeys, net \in nets :
           RestoreData(d, u, k, net)
    \/ \E c \in Slots, net \in nets : RestoreGotHash(c, net)
    \/ \E c \in Slots : RestoreGotBlob(c)

Next == Step(Network)

Spec == Init /\ [][Next]_vars

\* The same devices and server with a network that loses nothing.
NextReliable == Step({"ok"})

SpecReliable == Init /\ [][NextReliable]_vars

\* ---------------------------------------------------------------- claims
\* The record db.users.add wrote at the end of signUp: it has a verifier
\* (restoreData's put writes none).
SignedUp(d, u) == db[d][u] # NoRecord /\ db[d][u].hashedPassword # NoHash

\* Every network call has settled.
AllFinished == \A c \in Slots : Free(c)

\* The recovery keys generated so far, the passwords, and their verifiers.
Secrets ==
    {generateRecoveryKey(n) : n \in 1..count.keys}
        \cup SignUpPasswords \cup LoginPasswords
        \cup {hashPassword(pw) : pw \in SignUpPasswords \cup LoginPasswords}

RequestFields == {"app_id", "username", "hash", "encryptedData"}

\* C1: no request sent to the server carries a recovery key, a password or a
\* password verifier: its body or query holds only app_id, username, a hash
\* and/or a ciphertext, and none of the plain fields is a secret.
C1_NoSecretInRequests ==
    \A c \in Slots :
        LET body == calls[c].req.body
        IN  /\ DOMAIN body \subseteq RequestFields
            /\ \A f \in DOMAIN body \ {"encryptedData"} : body[f] \notin Secrets

\* A backupData call of a signed-up, logged-in user has its ciphertext stored
\* and its set-hash request on the wire.
C1_Witness ==
    \E c \in Slots :
        /\ Awaiting(c, "backupData", "sethash")
        /\ calls[c].req.body.username \in Users
        /\ \E b \in blobs : CID(b) = calls[c].req.body.hash /\ b.key \in Secrets

\* restoreData(u, R) running on some device, where signUp(u, .) returned R on
\* device d and nothing but that signUp has touched the directory: it is the
\* only signUp that reached the network and the only call that encrypted.
RestoresSignUp(c, d, u) ==
    /\ SignedUp(d, u)
    /\ count.keys = 1 /\ count.enc = 1
    /\ calls[c].op = "restoreData"
    /\ calls[c].username = u
    /\ calls[c].recoveryKey = db[d][u].recoveryKey

\* C2: after signUp(u, pw) returned R, with u's directory entry untouched
\* since, restoreData(u, R) on any device succeeds and returns the initial
\* payload signUp stored: a call answered with the entry as it stands goes on
\* to fetch the blob, and then settles with that payload.
C2_RestoreAfterSignUp ==
    \A c \in Slots, d \in Devices, u \in Users :
        /\ ( /\ RestoresSignUp(c, d, u)
             /\ calls[c].pc = "gethash"
             /\ calls[c].resp.ipfsHash = directory[u] )
           => RestoreHashResult(calls[c]) = GoesOn("restoreData")
        /\ ( /\ RestoresSignUp(c, d, u)
             /\ calls[c].pc = "restore"
             /\ calls[c].ipfsHash = directory[u] )
           => RestoreResult(calls[c]) = Return("restoreData", InitialData)

\* restoreData on a second device has returned the initial payload and written
\* the profile there, under the key signUp returned on the first.
C2_Witness ==
    /\ settled = Return("restoreData", InitialData)
    /\ count.keys = 1 /\ count.enc = 1
    /\ \E d1, d2 \in Devices, u \in Users :
          /\ d1 # d2
          /\ SignedUp(d1, u)
          /\ db[d2][u] # NoRecord
          /\ db[d2][u].recoveryKey = db[d1][u].recoveryKey
          /\ db[d2][u].backupHash = directory[u]

\* C3: once concurrent backupData calls of one user have all finished, the
\* last of them having returned, the local record's pointer is the directory's.
\* (One user has signed up, so no other user's session or sign-up interferes.)
C3_FinalPointerIsLastCommitted ==
    \A d \in Devices, u \in Users :
        ( /\ AllFinished
          /\ count.keys = 1
          /\ settled.op = "backupData" /\ settled.ok
          /\ SignedUp(d, u) )
        => db[d][u].backupHash = directory[u]

\* Between its storage request and its local pointer update.
StoreToPointerUpdate(c) ==
    calls[c].op = "backupData" /\ calls[c].pc \in {"backup", "sethash"}

\* C4: at any time at most one backupData call of a username is between its
\* storage request and its local pointer update.
C4_BackupsSerialized ==
    \A c1, c2 \in Slots :
        ( /\ StoreToPointerUpdate(c1) /\ StoreToPointerUpdate(c2)
          /\ calls[c1].dev = calls[c2].dev
          /\ calls[c1].username = calls[c2].username )
        => c1 = c2

\* The addresses at which the storage service holds a ciphertext.
StoredAt == {CID(b) : b \in blobs}

\* C5 as stated: every pointer registered in the directory is the address of
\* a ciphertext already stored.
C5_RegisteredPointerIsStored ==
    \A u \in Users : directory[u] # NoHash => directory[u] \in StoredAt

\* C5 amended: every pointer registered in the directory is signUp's
\* placeholder or the address of a ciphertext already stored.
C5_RegisteredPointerIsStoredOrPlaceholder ==
    \A u \in Users :
        directory[u] # NoHash => directory[u] \in StoredAt \cup {PendingFirstBackup}

\* One user's entry is still the placeholder while another's is the address of
\* a stored ciphertext.
C5_Witness ==
    \E u, v \in Users :
        directory[u] = PendingFirstBackup /\ directory[v] \in StoredAt

\* C6: signUp for a username that signUp already recorded in this local store
\* is rejected with DuplicateUser, and the rejected call changes nothing: not
\* the record, the directory or the blobs, and it sends no request (no step
\* that changes the state is a step of such a call).
C6_SecondSignUpRejected ==
    /\ [](\A d \in Devices, u \in Users, pw \in SignUpPasswords :
            SignedUp(d, u) => SignUpChecks(d, u, pw) = Throw("signUp", "DuplicateUser"))
    /\ [][vars' # vars =>
            \A d \in Devices, u \in Users :
                SignedUp(d, u) =>
                    \A pw \in SignUpPasswords, net \in Network : ~SignUp(d, u, pw, net)]_vars

\* A first signUp has written its record and a second one for the same
\* username on the same device is rejected.
C6_Witness ==
    \E d \in Devices, u \in Users, pw \in SignUpPasswords :
        /\ SignedUp(d, u)
        /\ db[d][u].backupHash = directory[u]
        /\ SignUpChecks(d, u, pw) = Throw("signUp", "DuplicateUser")

\* C7: two devices cannot both complete signUp for the same username.
C7_OneDeviceCompletesSignUp ==
    \A u \in Users, d1, d2 \in Devices :
        (SignedUp(d1, u) /\ SignedUp(d2, u)) => d1 = d2

\* C8: login returns true when the record's verifier matches, false when the
\* record exists and it does not, and fails with NoSuchLocalUser when there is
\* no record.
C8_LoginThreeOutcomes ==
    \A d \in Devices, u \in Users, pw \in LoginPasswords :
        LoginResult(d, u, pw) =
            IF db[d][u] = NoRecord THEN Throw("login", "NoSuchLocalUser")
            ELSE IF db[d][u].hashedPassword = hashPassword(pw) THEN Return("login", "true")
            ELSE Return("login", "false")

\* C9: backupData without a session fails with NotLoggedIn, and the call
\* changes nothing: it sends no request and leaves the local store, the
\* directory and the blobs as they are (no step that changes the state is a
\* step of such a call).
C9_BackupRequiresSession ==
    /\ [](\A d \in Devices :
            currentUser[d] = NoUser => BackupDataChecks(d) = Throw("backupData", "NotLoggedIn"))
    /\ [][vars' # vars =>
            \A d \in Devices :
                currentUser[d] = NoUser => \A data \in Payloads : ~BackupData(d, data)]_vars

\* A device that holds a signed-up record and no session: backupData there is
\* rejected.
C9_Witness ==
    \E d \in Devices, u \in Users :
        /\ SignedUp(d, u)
        /\ currentUser[d] = NoUser
        /\ BackupDataChecks(d) = Throw("backupData", "NotLoggedIn")

\* C10: backupData(P) of signed-up user u returned h (u's local pointer is h)
\* and the directory entry is still h; then restoreData(u, R) with u's
\* recovery key, answered with h, returns P.
C10_RestoreReturnsBackedUp ==
    \A c \in Slots, d \in Devices, u \in Users, P \in Payloads :
        ( /\ SignedUp(d, u)
          /\ db[d][u].backupHash = directory[u]
          /\ \E b \in blobs : CID(b) = directory[u] /\ b.pt = JSONstringify(P)
          /\ Awaiting(c, "restoreData", "restore")
          /\ calls[c].username = u
          /\ calls[c].recoveryKey = db[d][u].recoveryKey
          /\ calls[c].ipfsHash = directory[u] )
        => RestoreResult(calls[c]) = Return("restoreData", P)

\* C11: restoreData fails with NoBackupFound when the directory has no entry
\* for the username (and answers); with an entry, it fails with the request
\* error of _request when the blob request fails, and with InvalidRecoveryKey
\* when the blob was encrypted under another key: three different failures.
C11_RestoreFailures ==
    \A c \in Slots :
        LET self == calls[c]
        IN  /\ ( /\ Awaiting(c, "restoreData", "gethash")
                 /\ directory[self.username] = NoHash
                 /\ self.resp.status = "ok" )
               => RestoreHashResult(self) = Throw("restoreData", "NoBackupFound")
            /\ ( /\ Awaiting(c, "restoreData", "restore")
                 /\ self.resp.status = "error" )
               => RestoreResult(self) = Throw("restoreData", "NetworkOrApiError")
            /\ ( /\ Awaiting(c, "restoreData", "restore")
                 /\ self.resp.status = "ok"
                 /\ self.resp.blob.key # self.recoveryKey )
               => RestoreResult(self) = Throw("restoreData", "InvalidRecoveryKey")

\* One restoreData was answered for a username without an entry, and another
\* had its blob request fail although the username has an entry.
C11_Witness ==
    \E c1, c2 \in Slots :
        /\ Awaiting(c1, "restoreData", "gethash")
        /\ directory[calls[c1].username] = NoHash
        /\ calls[c1].resp.status = "ok"
        /\ Awaiting(c2, "restoreData", "restore")
        /\ directory[calls[c2].username] = calls[c2].ipfsHash
        /\ calls[c2].resp.status = "error"

\* C12: for every JSON-serializable payload P (null, false, 0, "", {} and []
\* among them) and every key K, decryptData(encryptData(P, K), K) is P, and
\* restoreData's check does not take it for a failed decryption.
C12_RoundTrip ==
    \A P \in JSONValues, K \in KnownKeys, salt \in 1..(count.enc + 1) :
        LET decryptedData == decryptData(encryptData(P, K, salt), K)
        IN  decryptedData = P /\ ~DecryptFailed(decryptedData)

\* The record restoreData's put wrote: it has no verifier.
Restored(d, u) == db[d][u] # NoRecord /\ db[d][u].hashedPassword = NoHash

\* C13: a restoreData(u, R) that succeeds writes u's record with recoveryKey R,
\* the pointer the directory answered (the one it fetched the blob by) and no
\* verifier, over any record there was; and for a record without a verifier
\* login(u, p) returns false for every password p.
C13_RestoreWritesProfile ==
    /\ [](\A d \in Devices, u \in Users, pw \in LoginPasswords \cup SignUpPasswords :
            Restored(d, u) => LoginResult(d, u, pw) = Return("login", "false"))
    /\ [][vars' # vars =>
            \A c \in Slots :
                ( /\ Awaiting(c, "restoreData", "restore")
                  /\ RestoreResult(calls[c]).ok
                  /\ RestoreGotBlob(c) )
                => LET self == calls[c]
                   IN  /\ self.ipfsHash = self.req.body.hash
                       /\ db'[self.dev][self.username] =
                             [username |-> self.username, recoveryKey |-> self.recoveryKey,
                              backupHash |-> self.ipfsHash, hashedPassword |-> NoHash]]_vars

\* signUp(u, pw1) and then restoreData(u, R) ran on the same device, and
\* nothing else: the restored record replaced the signed-up one, and the
\* password that worked before no longer logs in.
C13_Witness ==
    /\ AllFinished
    /\ count.calls = 2 /\ count.keys = 1
    /\ settled = Return("restoreData", InitialData)
    /\ \E d \in Devices, u \in Users :
          /\ Restored(d, u)
          /\ db[d][u].backupHash = directory[u]
          /\ \A d2 \in Devices : ~SignedUp(d2, u)
          /\ \A pw \in SignUpPasswords : LoginResult(d, u, pw) = Return("login", "false")

\* C14: a signUp that fails at a remote step (placeholder, initial backup,
\* missing hash, final set-hash) writes no local record: the step in which a
\* signUp settles with a failure leaves the local store as it was; and when
\* the failed signUp is the only call made so far, no record exists and the
\* same signUp is not rejected as a duplicate but goes on to step 1.
C14_FailedSignUpLeavesNoRecord ==
    /\ [](( /\ AllFinished
            /\ count.calls = 1
            /\ settled.op = "signUp" /\ ~settled.ok )
          => \A d \in Devices, u \in Users, pw \in SignUpPasswords :
                /\ db[d][u] = NoRecord
                /\ SignUpChecks(d, u, pw) = GoesOn("signUp"))
    /\ [][vars' # vars =>
            \A c \in Slots :
                ( /\ calls[c].op = "signUp"
                  /\ calls'[c] = Idle
                  /\ ~settled'.ok )
                => db' = db]_vars

\* The only call made so far is a signUp whose final set-hash request was
\* served but not answered, after the placeholder and the initial backup went
\* through: the directory names the stored blob and no record was written.
C14_Witness ==
    /\ AllFinished
    /\ count.calls = 1 /\ count.enc = 1
    /\ settled = Throw("signUp", "NetworkOrApiError")
    /\ \E u \in Users : directory[u] \in StoredAt
    /\ \A d \in Devices, u \in Users : db[d][u] = NoRecord

\* A backupData call of signed-up session user u on device d whose ciphertext
\* was stored and whose set-hash request then failed without being applied;
\* u is the only user who ever signed up and is still the session user.
DirectoryUpdateFailed(c, d, u) ==
    /\ Awaiting(c, "backupData", "sethash")
    /\ calls[c].dev = d /\ calls[c].username = u
    /\ calls[c].resp.status = "error"
    /\ calls[c].req.body.username = u
    /\ calls[c].ipfsHash \in StoredAt
    /\ directory[u] # calls[c].ipfsHash
    /\ currentUser[d] = u
    /\ SignedUp(d, u)
    /\ count.keys = 1

\* restoreData, answered with this pointer, can fetch the blob and decrypt it
\* with this key without reporting a failure.
Restorable(pointer, recoveryKey) ==
    \E b \in blobs :
        CID(b) = pointer /\ ~DecryptFailed(decryptData(b, recoveryKey))

\* C15: when backupData's storage request succeeds and its directory update
\* then fails, the local record's pointer and the directory entry still hold
\* a previous pointer, and that pointer designates a stored blob that
\* restoreData can fetch and decrypt.
C15_PreviousPointerStillValid ==
    \A c \in Slots, d \in Devices, u \in Users :
        DirectoryUpdateFailed(c, d, u) =>
            /\ db[d][u].backupHash # calls[c].ipfsHash
            /\ Restorable(db[d][u].backupHash, db[d][u].recoveryKey)
            /\ Restorable(directory[u], db[d][u].recoveryKey)

\* C16: a restoreData call that fails, whatever the reason (no directory
\* entry, request failure, blob of unexpected format, decryption failure),
\* leaves the local store unchanged: no step of the call but the one in which
\* it resolves changes db.
C16_FailedRestoreLeavesStore ==
    [][vars' # vars =>
         \A c \in Slots :
             ( /\ calls'[c] # calls[c]
               /\ calls[c].op = "restoreData" \/ calls'[c].op = "restoreData"
               /\ ~( calls'[c] = Idle /\ settled'.ok ) )
                 => db' = db]_vars

\* A restoreData with a key other than the blob's has failed on a world where
\* a user signed up; no device holds a restored record.
C16_Witness ==
    /\ AllFinished
    /\ count.calls = 2
    /\ settled = Throw("restoreData", "InvalidRecoveryKey")
    /\ \E d \in Devices, u \in Users : SignedUp(d, u) /\ directory[u] = db[d][u].backupHash
    /\ \A d \in Devices, u \in Users : ~Restored(d, u)

\* The settling call self had pointer h registered in the directory entry of
\* u before its store write: its set-hash request for (u, h) was answered ok,
\* or it is a restoreData of u that read h from u's directory entry.
RegisteredBefore(self, u, h) ==
    \/ /\ self.op \in {"signUp", "backupData"}
       /\ self.pc = "sethash"
       /\ ~RequestThrew(self.resp)
       /\ self.req.body.username = u
       /\ self.req.body.hash = h
    \/ /\ self.op = "restoreData"
       /\ self.pc = "restore"
       /\ self.username = u
       /\ self.ipfsHash = h

\* C17: every local record's backupPointer is the address of a stored blob,
\* never the placeholder, and whenever a record of u is written its pointer
\* was registered in the directory entry of u before (the local pointer may
\* lag behind the directory but is never ahead of it).
C17_LocalPointerWasRegistered ==
    /\ [](\A d \in Devices, u \in Users :
              db[d][u] # NoRecord =>
                  db[d][u].backupHash # PendingFirstBackup /\ db[d][u].backupHash \in StoredAt)
    /\ [][vars' # vars =>
            \A d \in Devices, u \in Users :
                ( db'[d][u] # db[d][u] ) =>
                    \E c \in Slots :
                        /\ calls'[c] = Idle
                        /\ calls[c].dev = d
                        /\ RegisteredBefore(calls[c], u, db'[d][u].backupHash)]_vars

\* C18: a backupData call started while U was the session user sends U, and
\* no other or no username, in its storage and directory requests, whatever
\* logout and login do while it awaits, and the store write that ends it
\* changes no record but U's.
C18_BackupBoundToStartingUser ==
    /\ [](\A c \in Slots :
              ( Awaiting(c, "backupData", "backup") \/ Awaiting(c, "backupData", "sethash") )
                  => calls[c].req.body.username = calls[c].username)
    /\ [][vars' # vars =>
            \A c \in Slots :
                ( calls[c].op = "backupData" /\ calls'[c] = Idle ) =>
                    \A u \in Users \ {calls[c].username} :
                        db'[calls[c].dev][u] = db[calls[c].dev][u]]_vars

\* C19: on each device every local record is self-consistent: the blob that
\* its backupPointer designates was encrypted under its recoveryKey.
C19_RecordSelfConsistent ==
    \A d \in Devices, u \in Users :
        db[d][u] # NoRecord =>
            \E b \in blobs :
                CID(b) = db[d][u].backupHash /\ b.key = db[d][u].recoveryKey

\* C20: the session of a device changes in exactly two ways: a login that
\* returns true sets it to the username logged in, and logout sets it to none
\* with no request sent and no store write; every other step (signUp,
\* restoreData, backupData, a login that returns false) leaves it unchanged.
C20_SessionChangesByLoginLogout ==
    [][vars' # vars =>
         \A d \in Devices :
             currentUser'[d] # currentUser[d] =>
                 \/ currentUser'[d] = NoUser /\ Logout(d)
                 \/ \E u \in Users, pw \in LoginPasswords :
                        /\ LoginResult(d, u, pw) = Return("login", "true")
                        /\ currentUser'[d] = u
                        /\ Login(d, u, pw)]_vars

\* A user logged in, a backupData of theirs completed and the session is
\* still theirs, while the other device, never logged in, has no session.
C20_Witness ==
    /\ AllFinished
    /\ settled.op = "backupData" /\ settled.ok
    /\ \E d \in Devices, u \in Users :
           /\ currentUser[d] = u
           /\ SignedUp(d, u)
           /\ db[d][u].backupHash = settled.val
           /\ \A d2 \in Devices \ {d} : currentUser[d2] = NoUser

====
